---- MODULE Spec2Model ----
(***************************************************************************)
(* CommConsole (src/comm_console.py): the UART terminal's connection       *)
(* lifecycle, per-port log buffers, poll timer and timed command batches.  *)
(*                                                                         *)
(* Text is a sequence of one-character strings.  Every handler is an       *)
(* operator from a record of the widget's fields to the record after the   *)
(* handler has run, so that a Qt signal emitted inside a handler runs the  *)
(* connected slot inside the same step, as Qt's direct connections do.     *)
(***************************************************************************)
EXTENDS Integers, Sequences, FiniteSets, TLC

\* ---------------------------------------------------------------- bounds
\* Number of operations (user actions, calls, poll timer ticks) in one
\* behaviour.  The ticks of a started send_commands batch are not counted:
\* each batch ends by itself once its queue is empty.
MaxOps == 3
\* Number of send_commands calls in one behaviour.
MaxJobs == 2
\* Number of ports list_ports.comports() reports to find_linux_port.
MaxPorts == 2

\* ---------------------------------------------------------------- inputs
NL == "\n"
\* Port names the lister can report or a caller can ask for.
Keys == {"COM1", "COM2"}
\* Results of list_ports.comports(), as device names; <<>> is "no ports".
PortLists == {<<>>, <<"COM1", "COM2">>}
\* Byte chunks the transport can have waiting; "xFF" is an undecodable byte.
RxChunks == {<<"r", "xFF">>}
\* Contents of the input box when Enter is pressed.
InputTexts == {<<>>, <<"a">>, <<"a", NL, "b">>}
\* Command lists handed to send_commands.
CommandLists == {<<>>, << <<"a">> >>, << <<"a">>, <<"b">> >>}
\* Pages of proto_combo the user moves between: UART (0) and SSH (1).  The
\* ADB page (2) is handled exactly as SSH: the handler tests only idx != 0.
Pages == {0, 1}
\* Whether send_commands is given an on_complete.  The calls followed here
\* give one; without it _flush_next does the same except for the call.
Callbacks == {TRUE}
\* str(e) of a transport read / write error.
IoErrors == {"EIO"}
\* Device names comports() reports to find_linux_port, as character strings.
Devices ==
    {<<"C", "O", "M", "9">>, <<"C", "O", "M", "1", "0">>,
     <<"c", "o", "m", "2">>, <<"t", "t", "y", "U", "S", "B", "0">>}
\* Hardware ids of the reported ports; <<>> is a port without hwid.
Hwids == {<<"u", " ", "V", "1">>, <<"V", "2">>, <<>>}
\* self._soc_port_id, the default needle ("VID:PID=067B:23A3").
SocPortId == <<"V", "1">>
\* The soc_port_id argument; <<>> is None or "".
Needles == {<<>>, <<" ">>, <<"V">>, <<"V", "2", " ">>}

\* ---------------------------------------------------------------- state
VARIABLES
    _serial,        \* <<>> (None) or <<port>>: the held Serial handle and its port
    _poll,          \* the 100 ms poll timer is running
    _port_logs,     \* dict: port name -> buffered text
    _current_port,  \* port whose buffer the log widget shows
    combo_items,    \* uart_port_combo entries
    combo_idx,      \* uart_port_combo current index, 1-based; 0 is "none"
    checked,        \* uart_connect_btn.isChecked()
    log,            \* text of the read-only log widget
    proto,          \* proto_combo.currentIndex()
    jobs,           \* one record per send_commands call (its closure)
    dialogs,        \* message boxes shown by the last operation
    written,        \* texts the last operation wrote to the transport
    ret,            \* value the last operation returned
    lastOp,         \* name of the last operation
    ops,            \* number of operations so far
    comports,       \* what list_ports.comports() reports to find_linux_port
    soc_port_id     \* the argument of find_linux_port

vars == <<_serial, _poll, _port_logs, _current_port, combo_items, combo_idx,
          checked, log, proto, jobs, dialogs, written, ret, lastOp, ops,
          comports, soc_port_id>>

\* The widget's fields as one record.
S ==
    [serial |-> _serial, poll |-> _poll, port_logs |-> _port_logs,
     current_port |-> _current_port, items |-> combo_items, idx |-> combo_idx,
     checked |-> checked, log |-> log, proto |-> proto,
     jobs |-> jobs, dialogs |-> dialogs, written |-> written, ret |-> ret]

\* The record at the start of an operation: nothing shown, written or returned yet.
Begin ==
    [S EXCEPT !.dialogs = <<>>, !.written = <<>>, !.ret = "none"]

\* ---------------------------------------------------------------- helpers
None == <<>>
EmptyDict == [k \in {} |-> <<>>]

\* dict.get(port, "")
Get(d, port) == IF port \in DOMAIN d THEN d[port] ELSE <<>>

\* d[port] = text
Put(d, port, text) ==
    [k \in (DOMAIN d) \cup {port} |-> IF k = port THEN text ELSE d[k]]

\* d.setdefault(port, "")
SetDefault(d, port) == IF port \in DOMAIN d THEN d ELSE Put(d, port, <<>>)

\* uart_port_combo.currentText()
CurrentText(s) == IF s.idx = 0 THEN "" ELSE s.items[s.idx]

\* uart_port_combo.findText(port): 1-based index, 0 when absent
FindText(s, port) ==
    IF \E i \in 1..Len(s.items) : s.items[i] = port
    THEN CHOOSE i \in 1..Len(s.items) :
            s.items[i] = port /\ \A j \in 1..(i - 1) : s.items[j] # port
    ELSE 0

\* QMessageBox shown: kind and text detail
Dialog(s, kind, detail) ==
    [s EXCEPT !.dialogs = Append(@, [kind |-> kind, detail |-> detail])]

\* ---------------------------------------------------------------- slots
\* _on_port_changed(port): save the displayed text into the previous port's
\* buffer, then show the buffer of the newly selected port.
OnPortChanged(s, port) ==
    LET saved == IF s.current_port # ""
                 THEN Put(s.port_logs, s.current_port, s.log)
                 ELSE s.port_logs
    IN  [s EXCEPT !.port_logs = saved,
                  !.current_port = port,
                  !.log = Get(saved, port)]

\* uart_port_combo.setCurrentIndex(i); currentTextChanged is connected to
\* _on_port_changed and is emitted only when the index changes.
SetCurrentIndex(s, i) ==
    IF i = s.idx THEN s
    ELSE LET s1 == [s EXCEPT !.idx = i]
         IN  OnPortChanged(s1, CurrentText(s1))

\* uart_port_combo.clear(): the current text becomes "".
ComboClear(s) ==
    IF s.items = <<>> THEN s
    ELSE OnPortChanged([s EXCEPT !.items = <<>>, !.idx = 0], "")

\* uart_port_combo.addItems(list): the first item added to an empty combo
\* becomes current.
ComboAddItems(s, list) ==
    IF s.items = <<>> /\ list # <<>>
    THEN OnPortChanged([s EXCEPT !.items = list, !.idx = 1], list[1])
    ELSE [s EXCEPT !.items = @ \o list]

\* refresh_ports(): the listed devices, or ["COM1"] when the list is empty
\* or the lister is unavailable.
RefreshPorts(s, ports) ==
    ComboAddItems(ComboClear(s), IF ports = <<>> THEN <<"COM1">> ELSE ports)

\* Outcomes of one _serial.close() call.
CloseOutcomes == {"ok", "raise"}

\* try: if self._serial is not None: self._serial.close(); self._serial = None
\* except Exception: pass
\* When close() raises, the assignment of None is skipped: the handle stays.
CloseSerial(s, c) ==
    IF s.serial = None THEN s
    ELSE IF c = "ok" THEN [s EXCEPT !.serial = None]
    ELSE s

\* Mutant of ToggleOff: the poll timer is left running.
ToggleOff_NoStop(s, c) ==
    CloseSerial(s, c)

\* _on_uart_connect_toggle(False)
ToggleOff(s, c) ==
    CloseSerial([s EXCEPT !.poll = FALSE], c)

\* uart_connect_btn.setChecked(False); toggled fires only on a change.
SetCheckedFalse(s, c) ==
    IF ~s.checked THEN s
    ELSE ToggleOff([s EXCEPT !.checked = FALSE], c)

\* The text of the "Open Port Failed" box for exception e on port:
\* lines 219-223 classify by exception class and by message.
OpenFailure(e, port) ==
    IF e.cls = "PermissionError" \/ e.msg = "busy"
    THEN [kind |-> "PortBusy", detail |-> <<port, e.msg>>]
    ELSE IF e.cls = "FileNotFoundError" \/ e.msg = "no such file"
    THEN [kind |-> "PortNotFound", detail |-> <<port, e.msg>>]
    ELSE [kind |-> "OpenFailed", detail |-> <<e.msg>>]

\* What import serial / serial.Serial(...) can do: succeed, fail to import,
\* or raise an exception of a class with a message.
OpenResults ==
    {[cls |-> "ok", msg |-> ""], [cls |-> "ImportError", msg |-> ""],
     [cls |-> "PermissionError", msg |-> "denied"],
     [cls |-> "SerialException", msg |-> "no such file"]}

\* Mutant of ToggleOn: a failed open leaves the Connect toggle checked.
ToggleOn_NoUncheck(s, e, c) ==
    LET port == CurrentText(s) IN
    IF e.cls = "ok"
    THEN LET logs == SetDefault(s.port_logs, port)
         IN  [s EXCEPT !.serial = <<port>>,
                       !.poll = TRUE,
                       !.port_logs = logs,
                       !.current_port = port,
                       !.log = Get(logs, port)]
    ELSE IF e.cls = "ImportError"
    THEN Dialog(s, "TransportUnavailable", <<"pyserial is not installed">>)
    ELSE LET f == OpenFailure(e, port)
         IN  Dialog(s, f.kind, f.detail)

\* _on_uart_connect_toggle(True)
ToggleOn(s, e, c) ==
    LET port == CurrentText(s) IN
    IF e.cls = "ok"
    THEN LET logs == SetDefault(s.port_logs, port)
         IN  [s EXCEPT !.serial = <<port>>,
                       !.poll = TRUE,
                       !.port_logs = logs,
                       !.current_port = port,
                       !.log = Get(logs, port)]
    ELSE IF e.cls = "ImportError"
    THEN SetCheckedFalse(Dialog(s, "TransportUnavailable", <<"pyserial is not installed">>), c)
    ELSE LET f == OpenFailure(e, port)
         IN  SetCheckedFalse(Dialog(s, f.kind, f.detail), c)

\* uart_connect_btn.setChecked(True)
SetCheckedTrue(s, e, c) ==
    IF s.checked THEN s
    ELSE ToggleOn([s EXCEPT !.checked = TRUE], e, c)

\* _uart_disconnect_if_needed() / disconnect_serial()
UartDisconnectIfNeeded(s, c) ==
    IF s.checked THEN SetCheckedFalse(s, c) ELSE s

\* Mutant of OnUartClear: the buffer is emptied, the log widget is not.
OnUartClear_KeepLog(s) ==
    [s EXCEPT !.port_logs = Put(@, CurrentText(s), <<>>)]

\* _on_uart_clear()
OnUartClear(s) ==
    [s EXCEPT !.port_logs = Put(@, CurrentText(s), <<>>), !.log = <<>>]

\* connect_to_port(port): select the port, toggle connect, and return
\* bool(self._serial).
ConnectToPort(s, port, e, c) ==
    LET s1 == IF FindText(s, port) = 0 THEN ComboAddItems(s, <<port>>) ELSE s
        s2 == SetCurrentIndex(s1, FindText(s1, port))
        s3 == SetCheckedTrue(s2, e, c)
    IN  [s3 EXCEPT !.ret = IF s3.serial # None THEN "True" ELSE "False"]

\* _on_proto_changed() after proto_combo moved to index i.
OnProtoChanged(s, i, ports, c) ==
    LET s1 == [s EXCEPT !.proto = i, !.log = <<>>] IN
    IF i # 0
    THEN UartDisconnectIfNeeded(s1, c)
    ELSE LET s2 == RefreshPorts(ComboClear(s1), ports)
         IN  OnPortChanged(s2, CurrentText(s2))

\* ---------------------------------------------------------------- poll
\* What one look at the transport finds: nothing waiting, bytes waiting, or
\* an error raised by in_waiting / read.
RxEvents ==
    {[kind |-> "none", data |-> <<>>, err |-> ""]}
    \cup {[kind |-> "data", data |-> d, err |-> ""] : d \in RxChunks}
    \cup {[kind |-> "error", data |-> <<>>, err |-> e] : e \in IoErrors}

\* One byte through bytes.decode(errors="replace"): an undecodable byte
\* becomes the replacement character.
DecodeByte(b) == IF b = "xFF" THEN "?" ELSE b

\* data.decode(errors="replace")
Decode(data) == [i \in 1..Len(data) |-> DecodeByte(data[i])]

\* Mutant of PollFailed: the Connect toggle is left checked.
PollFailed_NoUncheck(s, err, c1, c2) ==
    Dialog(CloseSerial([s EXCEPT !.poll = FALSE], c1), "ConnectionLost", <<err>>)

\* The except branch of _poll_uart: stop polling, close, warn, uncheck.
PollFailed(s, err, c1, c2) ==
    LET s1 == CloseSerial([s EXCEPT !.poll = FALSE], c1)
        s2 == Dialog(s1, "ConnectionLost", <<err>>)
    IN  SetCheckedFalse(s2, c2)

\* _poll_uart()
PollUart(s, rx, c1, c2) ==
    IF s.serial = None THEN s
    ELSE IF rx.kind = "error" THEN PollFailed(s, rx.err, c1, c2)
    ELSE IF rx.kind = "none" \/ rx.data = <<>> THEN s
    ELSE LET text == Decode(rx.data)
             port == CurrentText(s)
         IN  [s EXCEPT !.port_logs = Put(@, port, Get(@, port) \o text),
                       !.log = @ \o text]

\* ---------------------------------------------------------------- send
\* str.rstrip("\r\n")
RECURSIVE RStrip(_)
RStrip(t) ==
    IF t # <<>> /\ t[Len(t)] \in {NL, "\r"}
    THEN RStrip(SubSeq(t, 1, Len(t) - 1))
    ELSE t

\* str.split("\n")[-1]: the text after the last newline
RECURSIVE LastLine(_)
LastLine(t) ==
    IF \E i \in 1..Len(t) : t[i] = NL
    THEN LastLine(Tail(t))
    ELSE t

\* Outcomes of one _serial.write() call: "ok" or the error's text.
WriteOutcomes == {"ok"} \cup IoErrors

\* The text of the error self._serial.write(...) raises, "" when it returns.
WriteError(w) == IF w = "ok" THEN "" ELSE w

\* Mutant of OnSend: a write error is swallowed, as _flush_next does.
OnSend_Swallow(s, text, w) ==
    LET msg == LastLine(RStrip(text)) IN
    IF msg = <<>> \/ s.serial = None \/ WriteError(w) # "" THEN s
    ELSE LET port == CurrentText(s)
         IN  [s EXCEPT !.written = Append(@, msg \o <<NL>>),
                       !.port_logs = Put(@, port, Get(@, port) \o msg \o <<NL>>),
                       !.log = @ \o <<NL>>]

\* _on_send() with the input box holding text.  The box itself is not
\* part of the state: its content is the operation's input.
OnSend(s, text, w) ==
    LET msg == LastLine(RStrip(text)) IN
    IF msg = <<>> THEN s
    ELSE IF s.serial = None THEN s
    ELSE IF WriteError(w) # "" THEN Dialog(s, "SendFailed", <<WriteError(w)>>)
    ELSE LET port == CurrentText(s)
         IN  [s EXCEPT !.written = Append(@, msg \o <<NL>>),
                       !.port_logs = Put(@, port, Get(@, port) \o msg \o <<NL>>),
                       !.log = @ \o <<NL>>]

\* Mutant of FlushNext: queue.pop() takes the last command, not the first.
FlushNext_PopLast(s, j, w) ==
    LET job == s.jobs[j] IN
    IF job.queue = <<>>
    THEN [s EXCEPT !.jobs[j].timer = FALSE,
                   !.jobs[j].done = IF job.cb THEN @ + 1 ELSE @]
    ELSE LET cmd == job.queue[Len(job.queue)]
             s1 == [s EXCEPT !.jobs[j].queue = SubSeq(@, 1, Len(@) - 1)]
         IN
         IF s1.serial = None THEN [s1 EXCEPT !.jobs[j].gap = TRUE]
         ELSE LET s2 == [s1 EXCEPT !.jobs[j].sent = Append(@, cmd)] IN
              IF WriteError(w) # "" THEN s2
              ELSE LET port == CurrentText(s2)
                   IN  [s2 EXCEPT !.written = Append(@, cmd \o <<NL>>),
                                  !.port_logs = Put(@, port, Get(@, port) \o cmd \o <<NL>>),
                                  !.log = @ \o cmd \o <<NL>>]

\* Mutant of FlushNext: the calls share one queue, that of the first call.
FlushNext_SharedQueue(s, j, w) ==
    LET job == s.jobs[1] IN
    IF job.queue = <<>>
    THEN [s EXCEPT !.jobs[j].timer = FALSE,
                   !.jobs[j].done = IF s.jobs[j].cb THEN @ + 1 ELSE @]
    ELSE LET cmd == Head(job.queue)
             s1 == [s EXCEPT !.jobs[1].queue = Tail(@)]
         IN
         IF s1.serial = None THEN [s1 EXCEPT !.jobs[j].gap = TRUE]
         ELSE LET s2 == [s1 EXCEPT !.jobs[j].sent = Append(@, cmd)] IN
              IF WriteError(w) # "" THEN s2
              ELSE LET port == CurrentText(s2)
                   IN  [s2 EXCEPT !.written = Append(@, cmd \o <<NL>>),
                                  !.port_logs = Put(@, port, Get(@, port) \o cmd \o <<NL>>),
                                  !.log = @ \o cmd \o <<NL>>]

\* _flush_next() of the j-th send_commands call.
FlushNext(s, j, w) ==
    LET job == s.jobs[j] IN
    IF job.queue = <<>>
    THEN [s EXCEPT !.jobs[j].timer = FALSE,
                   !.jobs[j].done = IF job.cb THEN @ + 1 ELSE @]
    ELSE LET cmd == Head(job.queue)
             s1 == [s EXCEPT !.jobs[j].queue = Tail(@)]
         IN
         IF s1.serial = None THEN [s1 EXCEPT !.jobs[j].gap = TRUE]
         ELSE LET s2 == [s1 EXCEPT !.jobs[j].sent = Append(@, cmd)] IN
              IF WriteError(w) # "" THEN s2
              ELSE LET port == CurrentText(s2)
                   IN  [s2 EXCEPT !.written = Append(@, cmd \o <<NL>>),
                                  !.port_logs = Put(@, port, Get(@, port) \o cmd \o <<NL>>),
                                  !.log = @ \o cmd \o <<NL>>]

\* Mutant of SendCommands: an empty list returns without on_complete.
SendCommands_NoComplete(s, commands, cb, w) ==
    IF commands = <<>>
    THEN [s EXCEPT !.jobs = Append(@,
            [items |-> <<>>, queue |-> <<>>, timer |-> FALSE, cb |-> cb,
             done |-> 0, sent |-> <<>>, gap |-> FALSE])]
    ELSE LET s1 == [s EXCEPT !.jobs = Append(@,
                      [items |-> commands, queue |-> commands, timer |-> TRUE,
                       cb |-> cb, done |-> 0, sent |-> <<>>, gap |-> FALSE])]
         IN  FlushNext(s1, Len(s1.jobs), w)

\* send_commands(commands, spacing_ms, on_complete); cb says whether an
\* on_complete was given.  Each call's closure is a record:
\*   items  the list passed in          queue  what is left to send
\*   timer  its QTimer is running       cb     on_complete was given
\*   done   times on_complete ran       sent   commands handed to write()
\*   gap    a tick found no connection
SendCommands(s, commands, cb, w) ==
    IF commands = <<>>
    THEN [s EXCEPT !.jobs = Append(@,
            [items |-> <<>>, queue |-> <<>>, timer |-> FALSE, cb |-> cb,
             done |-> IF cb THEN 1 ELSE 0, sent |-> <<>>, gap |-> FALSE])]
    ELSE LET s1 == [s EXCEPT !.jobs = Append(@,
                      [items |-> commands, queue |-> commands, timer |-> TRUE,
                       cb |-> cb, done |-> 0, sent |-> <<>>, gap |-> FALSE])]
         IN  FlushNext(s1, Len(s1.jobs), w)

\* ---------------------------------------------------------------- find
\* needle in hwid: hwid has needle as a substring.
Contains(hwid, needle) ==
    \E i \in 0..(Len(hwid) - Len(needle)) :
        SubSeq(hwid, i + 1, i + Len(needle)) = needle

\* str.strip(): leading and trailing blanks removed.
RECURSIVE Strip(_)
Strip(t) ==
    IF t # <<>> /\ t[1] = " " THEN Strip(Tail(t))
    ELSE IF t # <<>> /\ t[Len(t)] = " " THEN Strip(SubSeq(t, 1, Len(t) - 1))
    ELSE t

\* One character through str.upper().
UpperChar(ch) ==
    CASE ch = "c" -> "C" [] ch = "o" -> "O" [] ch = "m" -> "M"
      [] ch = "t" -> "T" [] ch = "y" -> "Y" [] ch = "u" -> "U"
      [] OTHER -> ch

\* name.upper()
Upper(name) == [i \in 1..Len(name) |-> UpperChar(name[i])]

\* The characters \d matches, in order of value.
DigitChars == <<"0", "1", "2", "3", "4", "5", "6", "7", "8", "9">>
IsDigit(ch) == \E i \in 1..Len(DigitChars) : DigitChars[i] = ch
DigitVal(ch) == (CHOOSE i \in 1..Len(DigitChars) : DigitChars[i] = ch) - 1

\* The run of digits a name ends with, "" when it ends with none.
RECURSIVE TrailingDigits(_)
TrailingDigits(name) ==
    IF name # <<>> /\ IsDigit(name[Len(name)])
    THEN Append(TrailingDigits(SubSeq(name, 1, Len(name) - 1)), name[Len(name)])
    ELSE <<>>

\* group(1) of re.search(r"COM(\d+)$", name.upper()), "" when there is no
\* match: the digits the name ends with, when "COM" stands right before them.
ComDigits(name) ==
    LET u == Upper(name)
        d == TrailingDigits(u)
        n == Len(u) - Len(d)
    IN  IF d # <<>> /\ n >= 3 /\ SubSeq(u, n - 2, n) = <<"C", "O", "M">>
        THEN d ELSE <<>>

\* int(digits)
RECURSIVE IntOf(_)
IntOf(d) ==
    IF d = <<>> THEN 0
    ELSE IntOf(SubSeq(d, 1, Len(d) - 1)) * 10 + DigitVal(d[Len(d)])

\* _com_num(name): the COM number, 1_000_000 for a name that has none.
_com_num(name) ==
    IF ComDigits(name) # <<>> THEN IntOf(ComDigits(name)) ELSE 1000000

\* The devices, in list order, whose hwid contains the needle.
Candidates(ports, needle) ==
    LET hit(p) == needle # <<>> /\ Contains(p.hwid, needle)
        kept == SelectSeq(ports, hit)
    IN  [i \in 1..Len(kept) |-> kept[i].device]

\* Mutant of FindLinuxPort: the candidates are not sorted.
FindLinuxPort_NoSort(ports, soc) ==
    LET needle == Strip(IF soc # <<>> THEN soc ELSE SocPortId)
        candidates == Candidates(ports, needle)
    IN  IF candidates = <<>> THEN None ELSE candidates[1]

\* find_linux_port(soc_port_id) with comports() reporting ports.  The sort
\* is stable: candidates[0] is the first candidate with the least key.  An
\* unavailable lister returns None, as an empty list does.
FindLinuxPort(ports, soc) ==
    LET needle == Strip(IF soc # <<>> THEN soc ELSE SocPortId)
        candidates == Candidates(ports, needle)
    IN  IF candidates = <<>> THEN None
        ELSE candidates[CHOOSE i \in 1..Len(candidates) :
                /\ \A j \in 1..Len(candidates) :
                      _com_num(candidates[i]) <= _com_num(candidates[j])
                /\ \A j \in 1..(i - 1) :
                      _com_num(candidates[j]) > _com_num(candidates[i])]

\* ---------------------------------------------------------------- machine
\* The state after __init__: _setup_uart() then refresh_ports() with the
\* ports the lister reports.
Construct(ports) ==
    RefreshPorts(
        [serial |-> None, poll |-> FALSE, port_logs |-> EmptyDict,
         current_port |-> "", items |-> <<>>, idx |-> 0, checked |-> FALSE,
         log |-> <<>>, proto |-> 0, jobs |-> <<>>,
         dialogs |-> <<>>, written |-> <<>>, ret |-> "none"], ports)

\* The variables take the fields of record t, after operation op.
Apply(t, op) ==
    /\ IF op = "tick" THEN ops' = ops ELSE ops < MaxOps /\ ops' = ops + 1
    /\ _serial' = t.serial
    /\ _poll' = t.poll
    /\ _port_logs' = t.port_logs
    /\ _current_port' = t.current_port
    /\ combo_items' = t.items
    /\ combo_idx' = t.idx
    /\ checked' = t.checked
    /\ log' = t.log
    /\ proto' = t.proto
    /\ jobs' = t.jobs
    /\ dialogs' = t.dialogs
    /\ written' = t.written
    /\ ret' = t.ret
    /\ lastOp' = op
    /\ UNCHANGED <<comports, soc_port_id>>

Init ==
    \E ports \in PortLists :
        LET t == Construct(ports) IN
        /\ _serial = t.serial
        /\ _poll = t.poll
        /\ _port_logs = t.port_logs
        /\ _current_port = t.current_port
        /\ combo_items = t.items
        /\ combo_idx = t.idx
        /\ checked = t.checked
        /\ log = t.log
        /\ proto = t.proto
        /\ jobs = t.jobs
        /\ dialogs = t.dialogs
        /\ written = t.written
        /\ ret = t.ret
        /\ lastOp = "init"
        /\ ops = 0
        /\ comports = <<>>
        /\ soc_port_id = <<>>

\* The user picks another entry of the port combo (set_active).
SelectPort ==
    /\ proto = 0
    /\ \E i \in 1..Len(combo_items) :
        /\ i # combo_idx
        /\ Apply(SetCurrentIndex(Begin, i), "set_active")

\* The user presses Disconnect, or a caller runs disconnect_serial() (close).
Disconnect ==
    \E c \in CloseOutcomes :
        Apply(UartDisconnectIfNeeded(Begin, c), "close")

\* The user presses Connect (open on the selected port).
ClickConnect ==
    /\ proto = 0
    /\ ~checked
    /\ \E e \in OpenResults, c \in CloseOutcomes :
        Apply(SetCheckedTrue(Begin, e, c), "click_connect")

\* A caller runs connect_to_port(port) (open on a named port).
ConnectTo ==
    \E port \in Keys, e \in OpenResults, c \in CloseOutcomes :
        Apply(ConnectToPort(Begin, port, e, c), "connect_to_port")

\* The user presses Clear.
Clear ==
    /\ proto = 0
    /\ Apply(OnUartClear(Begin), "clear")

\* The poll timer fires.
PollTimeout ==
    /\ _poll
    /\ \E rx \in RxEvents, c1 \in CloseOutcomes, c2 \in CloseOutcomes :
        Apply(PollUart(Begin, rx, c1, c2), "poll")

\* The user presses Enter in the input box.
Send ==
    \E text \in InputTexts, w \in WriteOutcomes :
        Apply(OnSend(Begin, text, w), "send")

\* A caller runs send_commands.
SendMany ==
    /\ Len(jobs) < MaxJobs
    /\ \E commands \in CommandLists, cb \in Callbacks, w \in WriteOutcomes :
        Apply(SendCommands(Begin, commands, cb, w), "send_many")

\* The timer of a send_commands call fires.
FlushTick ==
    \E j \in 1..Len(jobs), w \in WriteOutcomes :
        /\ jobs[j].timer
        /\ Apply(FlushNext(Begin, j, w), "tick")

\* The user picks another protocol page.
ProtoChange ==
    \E i \in Pages, ports \in PortLists, c \in CloseOutcomes :
        /\ i # proto
        /\ Apply(OnProtoChanged(Begin, i, ports, c), "proto")

\* A caller runs refresh_ports().
Refresh ==
    \E ports \in PortLists :
        Apply(RefreshPorts(Begin, ports), "refresh")

Next ==
    \/ SelectPort
    \/ ClickConnect
    \/ Disconnect
    \/ ConnectTo
    \/ Clear
    \/ PollTimeout
    \/ Send
    \/ SendMany
    \/ FlushTick
    \/ ProtoChange
    \/ Refresh

Spec == Init /\ [][Next]_vars

\* A running QTimer keeps firing: the tick of a started batch is not
\* postponed forever.
FairSpec == Spec /\ WF_vars(FlushTick)

\* ------------------------------------------------------- find_linux_port
\* One reported port.
PortInfos == [device : Devices, hwid : Hwids]

\* The lists comports() can report: up to MaxPorts ports.
PortTables ==
    UNION {[1..n -> PortInfos] : n \in 0..MaxPorts}

\* A console just constructed, about to be asked for a port: the lister
\* reports some ports and the caller passes some needle.
FindInit ==
    \E table \in PortTables, soc \in Needles :
        LET t == Construct(<<>>) IN
        /\ _serial = t.serial
        /\ _poll = t.poll
        /\ _port_logs = t.port_logs
        /\ _current_port = t.current_port
        /\ combo_items = t.items
        /\ combo_idx = t.idx
        /\ checked = t.checked
        /\ log = t.log
        /\ proto = t.proto
        /\ jobs = t.jobs
        /\ dialogs = t.dialogs
        /\ written = t.written
        /\ ret = t.ret
        /\ lastOp = "init"
        /\ ops = 0
        /\ comports = table
        /\ soc_port_id = soc

\* A caller runs find_linux_port(soc_port_id).
FindPort ==
    /\ lastOp = "init"
    /\ ret' = FindLinuxPort(comports, soc_port_id)
    /\ lastOp' = "find_linux_port"
    /\ UNCHANGED <<_serial, _poll, _port_logs, _current_port, combo_items,
                   combo_idx, checked, log, proto, jobs, dialogs, written,
                   ops, comports, soc_port_id>>

FindNext == FindPort

FindSpec == FindInit /\ [][FindNext]_vars

\* ================================================================ claims
\* The manager's state is the Connect toggle: Connected while it is checked.
Connected == checked
Disconnected == ~checked

\* a is a prefix of b
IsPrefix(a, b) == Len(a) <= Len(b) /\ SubSeq(b, 1, Len(a)) = a

\* C1: in every reachable state a transport handle is held if and only if
\* the manager is Connected, also after a close or a read that raised.
C1_HandleIffConnected ==
    (_serial # None) <=> Connected

\* C2: connect_to_port(key2) while a connection is open does not report
\* success and leaves the connection and the toggle as they were.
C2_OpenWhileConnectedRefused ==
    [][(Connected /\ _serial # None /\ lastOp' = "connect_to_port")
        => (ret' # "True" /\ _serial' = _serial /\ checked' = checked)]_vars

\* C3: a poll on the connection opened on port K changes no buffer but K's.
C3_PollAppendsToBoundKey ==
    [][(lastOp' = "poll" /\ _serial # None)
        => \A j \in Keys \ {_serial[1]} :
              Get(_port_logs', j) = Get(_port_logs, j)]_vars

\* C4: no operation but clear of that key removes or replaces text of a
\* key's buffer: every other step leaves it as it was or appends to it.
C4_BufferOnlyGrows ==
    [][\A k \in Keys :
          \/ lastOp' = "clear" /\ CurrentText(S) = k
          \/ IsPrefix(Get(_port_logs, k), Get(_port_logs', k))]_vars

\* C5: with k1 active, set_active(k2) then set_active(k1) shows exactly the
\* text buffered for k1 and leaves k2's buffer as it was.
C5_RoundTrip ==
    \A k1 \in Keys, k2 \in Keys :
        (/\ k1 # k2
         /\ proto = 0
         /\ CurrentText(S) = k1
         /\ FindText(S, k2) # 0)
        => LET there == SetCurrentIndex(S, FindText(S, k2))
               back == SetCurrentIndex(there, FindText(there, k1))
           IN  /\ back.log = Get(_port_logs, k1)
               /\ Get(back.port_logs, k2) = Get(_port_logs, k2)

\* What holds of the closure of one send_commands call.
JobOk(job) ==
    /\ job.done <= 1
    /\ ~job.cb => job.done = 0
    /\ job.done = 1 => (job.queue = <<>> /\ ~job.timer)
    /\ (job.cb /\ ~job.timer) => job.done = 1
    /\ ~job.gap => job.sent \o job.queue = job.items
    /\ (job.done = 1 /\ ~job.gap) => job.sent = job.items

\* Every send_commands call made so far has ended: its timer is stopped
\* and the on_complete it was given has run.
AllJobsDone ==
    \A j \in 1..Len(jobs) :
        ~jobs[j].timer /\ (jobs[j].cb => jobs[j].done = 1)

\* C6: a batch that finds the connection open at every tick hands exactly
\* its items to write(), in list order, at most one per step; on_complete
\* runs once, after the last item, and every started batch gets there
\* (again and again, every call made so far has completed).
C6_BatchInOrderThenComplete ==
    /\ [][/\ \A j \in 1..Len(jobs') : JobOk(jobs'[j])
          /\ \A j \in 1..Len(jobs') :
                Len(jobs'[j].sent) <= (IF j <= Len(jobs) THEN Len(jobs[j].sent) ELSE 0) + 1]_vars
    /\ []<>AllJobsDone

\* C6 witness: a two-item batch has run to completion while connected.
C6_Witness ==
    \E j \in 1..Len(jobs) :
        /\ Len(jobs[j].items) = 2
        /\ jobs[j].sent = jobs[j].items
        /\ ~jobs[j].gap
        /\ jobs[j].done = 1
        /\ Connected

\* C7: once the manager is Disconnected, a send and a batch tick write
\* nothing, change no buffer and raise nothing.
C7_NoOpWhenDisconnected ==
    [][(Disconnected /\ lastOp' \in {"send", "tick"})
        => (written' = <<>> /\ dialogs' = <<>>
            /\ _port_logs' = _port_logs /\ log' = log)]_vars

\* C8: after close the manager is Disconnected and the poll timer is
\* stopped; a poll step of a Disconnected manager changes no buffer.
C8_CloseThenPollIdle ==
    [][/\ lastOp' = "close" => (Disconnected' /\ ~_poll')
       /\ (Disconnected /\ lastOp' = "poll")
            => (_port_logs' = _port_logs /\ log' = log)]_vars

\* C8 witness: a close after an open and a poll that read data.
C8_Witness ==
    /\ lastOp = "close"
    /\ Disconnected
    /\ \E k \in DOMAIN _port_logs : _port_logs[k] # <<>>

\* A step that is _poll_uart() with input rx and close outcomes c1, c2.
PollStep(rx, c1, c2) ==
    _poll /\ Apply(PollUart(Begin, rx, c1, c2), "poll")

\* C9: a poll that meets a read error stops polling, leaves the manager
\* Disconnected, surfaces ConnectionLost with the error's text and changes
\* no buffer.
C9_ReadErrorDisconnects ==
    [][\A rx \in RxEvents, c1 \in CloseOutcomes, c2 \in CloseOutcomes :
          (lastOp' = "poll" /\ rx.kind = "error" /\ PollStep(rx, c1, c2))
          => /\ ~_poll'
             /\ Disconnected'
             /\ dialogs' = <<[kind |-> "ConnectionLost", detail |-> <<rx.err>>]>>
             /\ _port_logs' = _port_logs
             /\ log' = log]_vars

\* C9 witness: a poll has just reported a lost connection after data was read.
C9_Witness ==
    /\ lastOp = "poll"
    /\ dialogs # <<>>
    /\ Disconnected
    /\ \E k \in DOMAIN _port_logs : _port_logs[k] # <<>>

\* A step that is _on_send() writing a message while write() raises w.
SendErrStep(w) ==
    \E text \in InputTexts :
        /\ LastLine(RStrip(text)) # <<>>
        /\ _serial # None
        /\ Apply(OnSend(Begin, text, w), "send")

\* A step in which a batch hands an item to write() and write() raises w:
\* a timer tick, or the first item sent by send_commands itself.
BatchErrStep(w) ==
    /\ _serial # None
    /\ \/ \E j \in 1..Len(jobs) :
            /\ jobs[j].timer
            /\ jobs[j].queue # <<>>
            /\ Apply(FlushNext(Begin, j, w), "tick")
       \/ \E commands \in CommandLists \ {<<>>}, cb \in Callbacks :
            /\ Len(jobs) < MaxJobs
            /\ Apply(SendCommands(Begin, commands, cb, w), "send_many")

\* C10 as claimed: a write error in send and in a batch item is surfaced
\* as SendFailed with its text; the connection stays, no buffer changes.
C10_WriteErrorSurfaced ==
    [][\A w \in IoErrors :
          (lastOp' \in {"send", "send_many", "tick"} /\ (SendErrStep(w) \/ BatchErrStep(w)))
          => /\ dialogs' = <<[kind |-> "SendFailed", detail |-> <<w>>]>>
             /\ _serial' = _serial /\ checked' = checked
             /\ _port_logs' = _port_logs /\ log' = log]_vars

\* C10 amended: send surfaces the write error as SendFailed with its text;
\* a batch item's write error is swallowed and nothing is surfaced; in both
\* the connection stays and no buffer changes.
C10_WriteErrorSendOnly ==
    [][\A w \in IoErrors :
          /\ (lastOp' = "send" /\ SendErrStep(w))
               => /\ dialogs' = <<[kind |-> "SendFailed", detail |-> <<w>>]>>
                  /\ written' = <<>>
                  /\ _serial' = _serial /\ checked' = checked
                  /\ _port_logs' = _port_logs /\ log' = log
          /\ (lastOp' \in {"send_many", "tick"} /\ BatchErrStep(w))
               => /\ dialogs' = <<>>
                  /\ written' = <<>>
                  /\ _serial' = _serial /\ checked' = checked
                  /\ _port_logs' = _port_logs /\ log' = log]_vars

\* C10 witness: a send has just failed on an open connection that holds text.
C10_Witness ==
    /\ lastOp = "send"
    /\ dialogs = <<[kind |-> "SendFailed", detail |-> <<"EIO">>]>>
    /\ Connected /\ _serial # None
    /\ \E k \in DOMAIN _port_logs : _port_logs[k] # <<>>

\* A step that is _on_send() with the box holding text while write() returns.
SendOkStep(text) ==
    _serial # None /\ Apply(OnSend(Begin, text, "ok"), "send")

\* C11: a send of a non-empty text, multi-line text included, on an open
\* connection writes exactly text + "\n" to the transport and appends
\* exactly text + "\n" to the buffer of the connection's port.
C11_SendWholeText ==
    [][\A text \in InputTexts \ {<<>>} :
          (lastOp' = "send" /\ Connected /\ SendOkStep(text))
          => /\ written' = <<text \o <<NL>>>>
             /\ Get(_port_logs', _serial[1])
                  = Get(_port_logs, _serial[1]) \o text \o <<NL>>]_vars

\* The ways an open can fail.
OpenErrors == {e \in OpenResults : e.cls # "ok"}

\* A step that is a press of Connect whose open fails with e.
FailedClickStep(e, c) ==
    proto = 0 /\ ~checked /\ Apply(SetCheckedTrue(Begin, e, c), "click_connect")

\* A step that is connect_to_port(port) whose open fails with e.
FailedConnectToStep(port, e, c) ==
    Apply(ConnectToPort(Begin, port, e, c), "connect_to_port")

\* The widget once connect_to_port(port) has selected the port (lines
\* 278-282), before it toggles Connect.
PortSelected(port) ==
    LET s1 == IF FindText(Begin, port) = 0
              THEN ComboAddItems(Begin, <<port>>) ELSE Begin
    IN  SetCurrentIndex(s1, FindText(s1, port))

\* After a failed open for key: Disconnected, not polling, no session made
\* for key.
FailedOpenIdle(key) ==
    /\ Disconnected'
    /\ ~_poll'
    /\ key \in DOMAIN _port_logs' => key \in DOMAIN _port_logs

\* The active key and every buffer are as before the step.
SessionsUntouched ==
    /\ _current_port' = _current_port
    /\ \A k \in Keys : Get(_port_logs', k) = Get(_port_logs, k)

\* C12 as claimed: an open that fails from Disconnected, by the Connect
\* toggle or by connect_to_port(key), leaves the manager Disconnected and
\* not polling, creates no session for key and leaves the active key and
\* every buffer unchanged.
C12_FailedOpenChangesNothing ==
    [][\A e \in OpenErrors, c \in CloseOutcomes :
          (Disconnected /\ lastOp' \in {"click_connect", "connect_to_port"})
          => /\ FailedClickStep(e, c)
                  => (FailedOpenIdle(CurrentText(S)) /\ SessionsUntouched)
             /\ \A port \in Keys :
                  FailedConnectToStep(port, e, c)
                  => (FailedOpenIdle(port) /\ SessionsUntouched)]_vars

\* C12 amended: every failed open from Disconnected leaves the manager
\* Disconnected and not polling and creates no session for key.  Through
\* the Connect toggle the active key and every buffer are unchanged;
\* connect_to_port(key) has made key the active key before the open is
\* tried, exactly as set_active(key) does, and the failure does not undo it.
C12_FailedOpenKeepsSelection ==
    [][\A e \in OpenErrors, c \in CloseOutcomes :
          (Disconnected /\ lastOp' \in {"click_connect", "connect_to_port"})
          => /\ FailedClickStep(e, c)
                  => (FailedOpenIdle(CurrentText(S)) /\ SessionsUntouched
                      /\ log' = log)
             /\ \A port \in Keys :
                  FailedConnectToStep(port, e, c)
                  => /\ FailedOpenIdle(port)
                     /\ _current_port' = port
                     /\ _current_port' = PortSelected(port).current_port
                     /\ log' = PortSelected(port).log
                     /\ \A k \in Keys :
                           Get(_port_logs', k) = Get(PortSelected(port).port_logs, k)]_vars

\* C12 witness: connect_to_port("COM2") has just failed with the port busy;
\* COM2 is selected and has no session.
C12_Witness ==
    /\ lastOp = "connect_to_port"
    /\ ret = "False"
    /\ Disconnected /\ ~_poll
    /\ Len(dialogs) = 1 /\ dialogs[1].kind = "PortBusy"
    /\ _current_port = "COM2"
    /\ "COM2" \notin DOMAIN _port_logs

\* C13: clear of the selected key empties its buffer and the display and
\* changes neither the connection nor any other key's buffer; after it,
\* set_active(key), directly or coming back from any other listed key,
\* shows empty text.
C13_ClearThenShowEmpty ==
    /\ [][lastOp' = "clear"
            => /\ checked' = checked /\ _serial' = _serial /\ _poll' = _poll
               /\ \A k \in Keys \ {CurrentText(S)} :
                     Get(_port_logs', k) = Get(_port_logs, k)
               /\ Get(_port_logs', CurrentText(S)) = <<>>
               /\ log' = <<>>]_vars
    /\ [](lastOp = "clear"
            => \A i \in 1..Len(combo_items) :
                  LET there == SetCurrentIndex(S, i)
                      back == SetCurrentIndex(there, combo_idx)
                  IN  /\ back.log = <<>>
                      /\ back.current_port = CurrentText(S)
                      /\ Get(back.port_logs, CurrentText(S)) = <<>>)

\* C13 witness: Clear was pressed on an open connection after a two-item
\* batch had been echoed into the log.
C13_Witness ==
    /\ lastOp = "clear"
    /\ Connected /\ _serial # None
    /\ Len(combo_items) = 2
    /\ CurrentText(S) \in DOMAIN _port_logs
    /\ _port_logs[CurrentText(S)] = <<>>
    /\ \E j \in 1..Len(jobs) : jobs[j].done = 1 /\ Len(jobs[j].sent) = 2

\* A step that is send_commands([], ..., on_complete).
SendEmptyStep(w) ==
    /\ Len(jobs) < MaxJobs
    /\ Apply(SendCommands(Begin, <<>>, TRUE, w), "send_many")

\* C14: send_commands with an empty list has run on_complete exactly once
\* when it returns, has written nothing and changed no buffer, and has
\* started no timer; no later step runs that on_complete again.
C14_EmptyBatchCompletesAtOnce ==
    /\ [][\A w \in WriteOutcomes :
            (lastOp' = "send_many" /\ SendEmptyStep(w))
            => /\ Len(jobs') = Len(jobs) + 1
               /\ jobs'[Len(jobs')].done = 1
               /\ ~jobs'[Len(jobs')].timer
               /\ jobs'[Len(jobs')].sent = <<>>
               /\ written' = <<>>
               /\ _port_logs' = _port_logs /\ log' = log]_vars
    /\ [](\A j \in 1..Len(jobs) :
            jobs[j].items = <<>>
            => (jobs[j].done = 1 /\ ~jobs[j].timer /\ jobs[j].sent = <<>>))

\* C14 witness: an empty batch was given while connected, and a tick of a
\* later batch has fired since.
C14_Witness ==
    /\ lastOp = "tick"
    /\ Connected
    /\ Len(jobs) = 2
    /\ jobs[1].items = <<>> /\ jobs[1].done = 1
    /\ jobs[2].items # <<>> /\ jobs[2].done = 1

\* a <= b as strings of digits, character by character.
RECURSIVE LexLE(_, _)
LexLE(a, b) ==
    IF a = <<>> THEN TRUE
    ELSE IF b = <<>> THEN FALSE
    ELSE IF a[1] = b[1] THEN LexLE(Tail(a), Tail(b))
    ELSE DigitVal(a[1]) < DigitVal(b[1])

\* The needle of a call: the argument, the default id when none is given.
GivenNeedle == IF soc_port_id # <<>> THEN soc_port_id ELSE SocPortId

\* Positions of comports whose hwid contains needle n.
Matching(n) ==
    {i \in 1..Len(comports) : Contains(comports[i].hwid, n)}

\* C15 as claimed: find_linux_port returns none when no listed hwid
\* contains the needle; otherwise it returns a matching device whose
\* trailing digits are the lexicographically smallest among the matches.
C15_LexSmallestSuffix ==
    lastOp = "find_linux_port"
    => /\ Matching(GivenNeedle) = {} => ret = None
       /\ Matching(GivenNeedle) # {}
            => \E i \in Matching(GivenNeedle) :
                  /\ ret = comports[i].device
                  /\ \A j \in Matching(GivenNeedle) :
                        LexLE(TrailingDigits(comports[i].device),
                              TrailingDigits(comports[j].device))

\* C15 amended: with the needle stripped of surrounding blanks,
\* find_linux_port returns none exactly when the needle is empty or no
\* listed hwid contains it; otherwise it returns the first listed matching
\* device with the numerically least COM number, a device not named
\* COM<n> counting as 1000000.
C15_LowestComNumber ==
    lastOp = "find_linux_port"
    => LET n == Strip(GivenNeedle)
           M == IF n = <<>> THEN {} ELSE Matching(n)
       IN  /\ M = {} <=> ret = None
           /\ M # {}
                => \E i \in M :
                      /\ ret = comports[i].device
                      /\ \A j \in M :
                            /\ _com_num(comports[i].device) <= _com_num(comports[j].device)
                            /\ j < i => _com_num(comports[j].device)
                                          > _com_num(comports[i].device)

\* C15 witness: COM10 and COM9 both match, COM10 listed first, and COM9
\* was returned.
C15_Witness ==
    /\ lastOp = "find_linux_port"
    /\ Len(comports) = 2
    /\ comports[1].device = <<"C", "O", "M", "1", "0">>
    /\ comports[2].device = <<"C", "O", "M", "9">>
    /\ Matching(Strip(GivenNeedle)) = {1, 2}
    /\ ret = <<"C", "O", "M", "9">>

\* The operations C16 names.
SessionOps ==
    {"click_connect", "connect_to_port", "close", "set_active", "clear",
     "poll", "send", "send_many", "tick"}

\* The log widget shows exactly the stored buffer of the active session.
DisplayIsBuffer(s) == s.log = Get(s.port_logs, s.current_port)

\* C16: each of open, close, set_active, clear, poll, send and a batch
\* tick, started with the display equal to the active session's buffer,
\* ends with the display equal to the active session's buffer.
C16_DisplayEqualsBuffer ==
    [][(lastOp' \in SessionOps /\ log = Get(_port_logs, _current_port))
        => log' = Get(_port_logs', _current_port')]_vars

\* What one tick (or the first send inside send_commands) may do to the
\* closure a of a call, giving b: complete it, or take its first command.
TickOf(a, b) ==
    /\ a.timer
    /\ b.items = a.items /\ b.cb = a.cb
    /\ IF a.queue = <<>>
       THEN /\ b.done = a.done + 1 /\ ~b.timer
            /\ b.queue = <<>> /\ b.sent = a.sent /\ b.gap = a.gap
            /\ written' = <<>>
       ELSE /\ b.done = a.done /\ b.timer
            /\ b.queue = Tail(a.queue)
            /\ IF _serial = None
               THEN b.sent = a.sent /\ b.gap /\ written' = <<>>
               ELSE /\ b.sent = Append(a.sent, Head(a.queue)) /\ b.gap = a.gap
                    /\ written' \in {<<>>, <<Head(a.queue) \o <<NL>>>>}

\* Every call made so far has run its on_complete once, with its timer
\* stopped, having handed over exactly its own items in its own order
\* whenever every one of its ticks found the connection.
AllJobsDelivered ==
    \A j \in 1..Len(jobs) :
        /\ ~jobs[j].timer
        /\ jobs[j].done = 1
        /\ ~jobs[j].gap => jobs[j].sent = jobs[j].items

\* C17: with several send_commands calls running at once, a tick changes
\* the closure of its own call only, taking that call's next command;
\* whatever the order of the ticks each call hands over its own items in
\* its list order, none twice and none dropped, and runs its on_complete
\* exactly once, after its last item.
C17_OverlappingBatches ==
    /\ [][lastOp' = "tick"
            => /\ Len(jobs') = Len(jobs)
               /\ \E j \in 1..Len(jobs) :
                     /\ TickOf(jobs[j], jobs'[j])
                     /\ \A i \in 1..Len(jobs) : i # j => jobs'[i] = jobs[i]]_vars
    /\ [][/\ lastOp' = "send_many"
                => \A i \in 1..Len(jobs) : jobs'[i] = jobs[i]
          /\ lastOp' \notin {"send_many", "tick"} => jobs' = jobs
          /\ \A j \in 1..Len(jobs) :
                /\ jobs'[j].done >= jobs[j].done
                /\ IsPrefix(jobs[j].sent, jobs'[j].sent)
          /\ \A j \in 1..Len(jobs') :
                /\ jobs'[j].done <= 1
                /\ ~jobs'[j].gap => IsPrefix(jobs'[j].sent, jobs'[j].items)]_vars
    /\ []<>AllJobsDelivered

\* C17 witness: two two-item batches run at once on an open connection and
\* the later call has overtaken the earlier one.
C17_Witness ==
    /\ Connected /\ _serial # None
    /\ Len(jobs) = 2
    /\ Len(jobs[1].items) = 2 /\ Len(jobs[2].items) = 2
    /\ jobs[1].timer /\ jobs[1].queue # <<>>
    /\ jobs[2].timer /\ jobs[2].queue = <<>> /\ jobs[2].sent = jobs[2].items
    /\ lastOp = "tick"

====
